---- MODULE Spec2Model ----
(***************************************************************************)
(* XLSX -> JSONL converter (services/convert_from_xlsx_to_json.py).        *)
(*                                                                         *)
(* The model follows one XLSXtoJSONLConverter instance through a sequence  *)
(* of convert / convert_bytes calls over a small file system.  Path text   *)
(* is a sequence of tokens ("d", ".", "/", ...), a path is the sequence of *)
(* its segments as pathlib keeps them, a file holds either a workbook or   *)
(* the chunks written to it.  Only the "records" orient (the default of    *)
(* the dataclass) and relative paths without ".." segments are modelled.   *)
(***************************************************************************)
EXTENDS Integers, Sequences, FiniteSets, TLC

(* ------------------------------ bounds --------------------------------- *)
\* longest output-path text, in tokens, of the path-resolution runs
MaxLen == 4
\* most worksheets in a workbook
MaxSheets == 2
\* most data rows in a worksheet
MaxRows == 1
\* most conversion calls in one run
MaxCalls == 2

(* --------------------------- small helpers ----------------------------- *)
None == "None"
\* the outcome of a call that may raise: a value, or the exception's name
Ok(v) == [ok |-> TRUE, val |-> v]
Raise(e) == [ok |-> FALSE, err |-> e]

Last(s) == s[Len(s)]
Front(s) == SubSeq(s, 1, Len(s) - 1)

RECURSIVE SeqsUpTo(_, _)
SeqsUpTo(S, n) ==
    IF n = 0 THEN {<<>>}
    ELSE LET prev == SeqsUpTo(S, n - 1)
         IN prev \cup {Append(s, x) : s \in {t \in prev : Len(t) = n - 1}, x \in S}

(* ------------------------------ pathlib -------------------------------- *)
Sep == "/"
Dot == "."

\* the segments of a text between separators, empty ones included
RECURSIVE SplitFrom(_, _, _, _)
SplitFrom(text, i, cur, acc) ==
    IF i > Len(text) THEN Append(acc, cur)
    ELSE IF text[i] = Sep THEN SplitFrom(text, i + 1, <<>>, Append(acc, cur))
    ELSE SplitFrom(text, i + 1, Append(cur, text[i]), acc)

\* Path(text): empty and "." segments are dropped, a trailing separator with them
Path(text) ==
    LET keep(seg) == seg # <<>> /\ seg # <<Dot>>
    IN SelectSeq(SplitFrom(text, 1, <<>>, <<>>), keep)

\* p.name: the final segment, '' for the path "."
Name(p) == IF p = <<>> THEN <<>> ELSE Last(p)

\* p.parent
Parent(p) == IF p = <<>> THEN <<>> ELSE Front(p)

\* name.rfind('.'), 1-based, 0 when there is none
RFindDot(name) ==
    LET at == {i \in 1..Len(name) : name[i] = Dot}
    IN IF at = {} THEN 0 ELSE CHOOSE i \in at : \A j \in at : j <= i

\* p.suffix: from the last dot of the name, unless that dot leads or ends the name
\* (pathlib up to Python 3.13)
Suffix(p) ==
    LET name == Name(p)
        i == RFindDot(name)
    IN IF 1 < i /\ i < Len(name) THEN SubSeq(name, i, Len(name)) ELSE <<>>

\* p.name.count('.')
CountDots(name) == Cardinality({i \in 1..Len(name) : name[i] = Dot})

\* p / filename
Join(p, filename) == Append(p, filename)

\* p.with_suffix(suffix): a ValueError for a path without a name
WithSuffix(p, suffix) ==
    IF Name(p) = <<>> THEN Raise("ValueError")
    ELSE LET name == Name(p)
             old == Suffix(p)
             stem == SubSeq(name, 1, Len(name) - Len(old))
         IN Ok(Append(Front(p), stem \o suffix))

\* str(p)
RECURSIVE Str(_)
Str(p) ==
    IF p = <<>> THEN <<Dot>>
    ELSE IF Len(p) = 1 THEN p[1]
    ELSE Str(Front(p)) \o <<Sep>> \o Last(p)

\* bytes.decode('utf-8') over the bytes of the tokens; 255 starts no UTF-8 sequence
DecodeByte(b) == IF b = 100 THEN "d" ELSE IF b = 46 THEN Dot ELSE IF b = 47 THEN Sep ELSE "?"
Decode(bytes) ==
    IF \E i \in 1..Len(bytes) : bytes[i] >= 128 THEN Raise("UnicodeDecodeError")
    ELSE Ok([i \in 1..Len(bytes) |-> DecodeByte(bytes[i])])

(* ---------------------------- file system ------------------------------ *)
\* fs = [dirs |-> set of paths, files |-> function from paths to contents];
\* the working directory <<>> is always a directory
Exists(fs, p) == p \in fs.dirs \/ p \in DOMAIN fs.files
IsDir(fs, p) == p \in fs.dirs
IsFile(fs, p) == p \in DOMAIN fs.files

Prefixes(p) == {SubSeq(p, 1, n) : n \in 0..Len(p)}

\* Path.mkdir(parents=True, exist_ok=True): every missing ancestor is created;
\* an error, and nothing created, when the path or an ancestor is a file
Mkdir(fs, p) ==
    IF \E q \in Prefixes(p) : IsFile(fs, q) THEN Raise("OSError")
    ELSE Ok([fs EXCEPT !.dirs = @ \cup Prefixes(p)])

\* a text file is the sequence of the chunks written to it
TextFile(chunks) == [kind |-> "text", chunks |-> chunks]
Newline == [chunk |-> "\n"]
JsonChunk(json) == [chunk |-> "json", value |-> json]
XlsxFile(wb) == [kind |-> "xlsx", sheets |-> wb]

\* the bug of opening with mode 'a': an existing file keeps its content
OpenAppend(fs, p) ==
    IF IsDir(fs, p) THEN Raise("IsADirectoryError")
    ELSE IF ~IsDir(fs, Parent(p)) THEN Raise("FileNotFoundError")
    ELSE Ok([fs EXCEPT !.files =
                [q \in DOMAIN @ \cup {p} |-> IF q \in DOMAIN @ THEN @[q] ELSE TextFile(<<>>)]])

\* the file opened with mode 'w': created or truncated
OpenW(fs, p) ==
    IF IsDir(fs, p) THEN Raise("IsADirectoryError")
    ELSE IF ~IsDir(fs, Parent(p)) THEN Raise("FileNotFoundError")
    ELSE Ok([fs EXCEPT !.files =
                [q \in DOMAIN @ \cup {p} |-> IF q = p THEN TextFile(<<>>) ELSE @[q]]])

\* f_out.write(chunk) for each chunk in turn
WriteChunks(fs, p, chunks) == [fs EXCEPT !.files[p].chunks = @ \o chunks]
(* ------------------------ worksheets and records ----------------------- *)
\* A DataFrame as xls.parse returns it: the header's column names and the data
\* rows, each a mapping from column name to cell value.  A cell value is known by
\* its Python type: a native int, a float NaN, a datetime (pandas Timestamp), a
\* numpy integer, or an object json cannot serialize.
CellKinds == {"int", "nan", "datetime", "np.integer", "other"}

\* df.empty: any axis of length 0
Empty(df) == Len(df.columns) = 0 \/ Len(df.rows) = 0

\* df.where(pd.notna(df), None)
WhereNotNa(df) ==
    [df EXCEPT !.rows = [i \in 1..Len(@) |-> [c \in DOMAIN @[i] |-> IF @[i][c] = "nan" THEN None ELSE @[i][c]]]]

\* df.to_dict(orient="records")
ToDict(df) == df.rows

\* the None of an Optional[Dict]
NoRecord == [none |-> TRUE]

\* the bug of skipping every empty sheet, whatever skip_empty_sheets says
sheet_to_record_skips_every_empty(self, df, sheet_name) ==
    IF Empty(df) THEN NoRecord
    ELSE LET data == ToDict(WhereNotNa(df))
         IN IF self.include_sheet_name
            THEN [sheet_name |-> sheet_name, rows |-> data]
            ELSE [rows |-> data]

\* XLSXtoJSONLConverter._sheet_to_record
sheet_to_record(self, df, sheet_name) ==
    IF Empty(df) /\ self.skip_empty_sheets THEN NoRecord
    ELSE LET data == ToDict(WhereNotNa(df))
         IN IF self.include_sheet_name
            THEN [sheet_name |-> sheet_name, rows |-> data]
            ELSE [rows |-> data]

(* ----------------------------- JSON encoder ---------------------------- *)
\* what json serializes without asking default()
Native == {"int", "str", None}
JsonOf(v) == IF v = None THEN "null" ELSE IF v = "str" THEN "\"x\"" ELSE "1"

\* json.JSONEncoder.default: a TypeError for every object
JSONEncoder_default(obj) == Raise("TypeError")

\* type(obj) is DateTime, DateTime being click's parameter type
IsClickDateTime(obj) == obj = "click.DateTime"
IsoFormat(obj) == "iso-8601"

\* CustomJSONEncoder.default: the ISO string is computed and dropped; a numpy
\* integer becomes an int; every other path falls off the end and returns None
CustomJSONEncoder_default(obj) ==
    LET base == JSONEncoder_default(obj)
        dropped == IF IsClickDateTime(obj) THEN IsoFormat(obj) ELSE None
    IN IF base.ok THEN base
       ELSE IF obj = "np.integer" THEN Ok("int")
       ELSE Ok(None)

Default(cls, obj) ==
    IF cls = "CustomJSONEncoder" THEN CustomJSONEncoder_default(obj) ELSE JSONEncoder_default(obj)

\* one value as json writes it
EncodeValue(cls, v) ==
    IF v \in Native THEN Ok(JsonOf(v))
    ELSE LET r == Default(cls, v)
         IN IF r.ok THEN Ok(JsonOf(r.val)) ELSE r

\* json.dumps(record, ensure_ascii=False, cls=cls): the record with every value
\* encoded, on one line; the first value default() rejects raises
Dumps(record, cls) ==
    LET cells == {<<i, c>> : i \in 1..Len(record.rows), c \in UNION {DOMAIN record.rows[j] : j \in 1..Len(record.rows)}}
        bad == {x \in cells : x[2] \in DOMAIN record.rows[x[1]] /\ ~EncodeValue(cls, record.rows[x[1]][x[2]]).ok}
    IN IF bad # {} THEN Raise("TypeError")
       ELSE Ok([record EXCEPT !.rows =
                  [i \in 1..Len(@) |-> [c \in DOMAIN @[i] |-> EncodeValue(cls, @[i][c]).val]]])
(* ------------------------- output path resolution ---------------------- *)
\* An output_path argument: None, a str, bytes, or a Path object.
NoArg == [kind |-> "None"]
StrArg(text) == [kind |-> "str", text |-> text]
BytesArg(data) == [kind |-> "bytes", data |-> data]
PathArg(p) == [kind |-> "Path", path |-> p]

JsonlSuffix == <<Dot, "jsonl">>
OutputJsonl == <<"output", Dot, "jsonl">>

\* str(output_path).endswith(os.sep)
EndsWithSep(text) == Len(text) > 0 /\ Last(text) = Sep

\* the bug of leaving "not p.suffix" out of the directory test
normalize_output_path_no_suffix_test(fs, output_path, default_filename) ==
    LET decoded == IF output_path.kind = "bytes" THEN Decode(output_path.data)
                   ELSE IF output_path.kind = "str" THEN Ok(output_path.text)
                   ELSE IF output_path.kind = "Path" THEN Ok(Str(output_path.path))
                   ELSE Raise("TypeError")
    IN IF ~decoded.ok THEN decoded
       ELSE LET text == decoded.val
                p == IF output_path.kind = "Path" THEN output_path.path ELSE Path(text)
            IN IF Exists(fs, p) /\ IsDir(fs, p) THEN Ok(Join(p, default_filename))
               ELSE IF EndsWithSep(text) \/ CountDots(Name(p)) = 0
                    THEN Ok(Join(p, default_filename))
               ELSE Ok(p)

\* XLSXtoJSONLConverter._normalize_output_path
normalize_output_path(fs, output_path, default_filename) ==
    LET decoded == IF output_path.kind = "bytes" THEN Decode(output_path.data)
                   ELSE IF output_path.kind = "str" THEN Ok(output_path.text)
                   ELSE IF output_path.kind = "Path" THEN Ok(Str(output_path.path))
                   ELSE Raise("TypeError")
    IN IF ~decoded.ok THEN decoded
       ELSE LET text == decoded.val
                p == IF output_path.kind = "Path" THEN output_path.path ELSE Path(text)
            IN IF Exists(fs, p) /\ IsDir(fs, p) THEN Ok(Join(p, default_filename))
               ELSE IF Suffix(p) = <<>> /\ (EndsWithSep(text) \/ CountDots(Name(p)) = 0)
                    THEN Ok(Join(p, default_filename))
               ELSE Ok(p)

\* convert, lines 104-108: the resolved output path of a file conversion
ConvertOutputPath(fs, input_text, output_path) ==
    LET ip == Path(input_text)
        derived == WithSuffix(ip, JsonlSuffix)
    IN IF ~derived.ok THEN derived
       ELSE normalize_output_path(fs,
                                IF output_path.kind = "None" THEN PathArg(derived.val) ELSE output_path,
                                Name(derived.val))

\* convert_bytes, line 123
ConvertBytesOutputPath(fs, output_path) == normalize_output_path(fs, output_path, OutputJsonl)

(* ------------------------------ the state ------------------------------ *)
VARIABLES
    self,         \* the converter's configuration
    fs,           \* the file system
    input_path,   \* convert's input_path, as text
    file_bytes,   \* convert_bytes' file_bytes, as a file content
    output_path,  \* the output_path argument
    pc,           \* where the running call stands
    entry,        \* the running call: "convert" or "convert_bytes"
    out,          \* its resolved output path
    gen,          \* its iter_sheet_records generator
    record,       \* the record the for loop holds
    emitted,      \* the records the for loop has written
    handles,      \* the calls whose workbook handle (pd.ExcelFile) is open
    log           \* the finished calls

vars == <<self, fs, input_path, file_bytes, output_path, pc, entry, out, gen, record, emitted,
          handles, log>>
args == <<self, input_path, file_bytes, output_path>>

NoGen == [state |-> "none", idx |-> 0, xls |-> <<>>]
Missing == [kind |-> "missing"]
NoSource == [kind |-> "unread"]

\* the ordinal of the running call
This == Len(log) + 1

\* the encoder class each entry point hands to json.dumps (lines 114 and 127)
EncoderOf(e) == IF e = "convert" THEN "CustomJSONEncoder" ELSE "JSONEncoder"

\* what pd.ExcelFile(excel) is given to read
SourceOf(e) ==
    IF e = "convert"
    THEN IF IsFile(fs, Path(input_path)) THEN fs.files[Path(input_path)] ELSE Missing
    ELSE file_bytes

ContentAt(f, p) == IF IsFile(f, p) THEN f.files[p] ELSE Missing

\* the call ends: its outcome is logged and its frame is gone
Finish(status, stage, src, fsNow, resolved) ==
    /\ log' = Append(log, [entry |-> entry, status |-> status, stage |-> stage,
                           resolved |-> resolved, out |-> IF resolved THEN out ELSE <<>>,
                           src |-> src, emitted |-> emitted, at |-> gen.idx,
                           content |-> IF resolved THEN ContentAt(fsNow, out) ELSE Missing])
    /\ pc' = "idle"
    /\ entry' = None
    /\ out' = <<>>
    /\ gen' = NoGen
    /\ record' = NoRecord
    /\ emitted' = 0

(* ------------------------------ the calls ------------------------------ *)
\* a caller starts convert(input_path, output_path) or convert_bytes(file_bytes, output_path)
Call(e) ==
    /\ pc = "idle"
    /\ Len(log) < MaxCalls
    /\ pc' = "normalize"
    /\ entry' = e
    /\ UNCHANGED <<args, fs, out, gen, record, emitted, handles, log>>

\* lines 104-108 and 122-123
Normalize ==
    /\ pc = "normalize"
    /\ LET r == IF entry = "convert" THEN ConvertOutputPath(fs, input_path, output_path)
                ELSE ConvertBytesOutputPath(fs, output_path)
       IN IF r.ok
          THEN /\ out' = r.val
               /\ pc' = "mkdir"
               /\ UNCHANGED <<entry, gen, record, emitted, log>>
          ELSE Finish("raised", "normalize", NoSource, fs, FALSE)
    /\ UNCHANGED <<args, fs, handles>>

\* lines 110 and 124: output_path.parent.mkdir(parents=True, exist_ok=True)
MkdirParents ==
    /\ pc = "mkdir"
    /\ LET r == Mkdir(fs, Parent(out))
       IN IF r.ok
          THEN /\ fs' = r.val
               /\ pc' = "open"
               /\ UNCHANGED <<entry, out, gen, record, emitted, log>>
          ELSE /\ Finish("raised", "mkdir", NoSource, fs, TRUE)
               /\ UNCHANGED fs
    /\ UNCHANGED <<args, handles>>

\* lines 111 and 125: output_path.open('w'); the generator object is created by
\* the for statement and has not run yet (the one line 112 prints never runs)
OpenOutput ==
    /\ pc = "open"
    /\ LET r == OpenW(fs, out)
       IN IF r.ok
          THEN /\ fs' = r.val
               /\ pc' = "iter"
               /\ gen' = [state |-> "created", idx |-> 0, xls |-> <<>>]
               /\ UNCHANGED <<entry, out, record, emitted, log>>
          ELSE /\ Finish("raised", "open", NoSource, fs, TRUE)
               /\ UNCHANGED fs
    /\ UNCHANGED <<args, handles>>

\* the bug of ending the iteration at the first sheet whose record is None
NextKeptStopsAtSkipped(cfg, sheets, i) ==
    IF i + 1 <= Len(sheets)
       /\ sheet_to_record(cfg, sheets[i + 1].df, sheets[i + 1].name) # NoRecord
    THEN i + 1 ELSE 0

\* lines 69-73, the loop of the generator resumed after sheet i: the position of
\* the next sheet whose record is not None, 0 when the sheets run out first
NextKept(cfg, sheets, i) ==
    LET kept == {j \in (i + 1)..Len(sheets) :
                    sheet_to_record(cfg, sheets[j].df, sheets[j].name) # NoRecord}
    IN IF kept = {} THEN 0 ELSE CHOOSE k \in kept : \A m \in kept : k <= m

\* the bug of leaving out the write of the newline
LineChunksNoNewline(json) == <<JsonChunk(json)>>

\* lines 114-115 and 127-128: the two writes of one record
LineChunks(json) == <<JsonChunk(json), Newline>>

\* lines 66-73, one next() of the generator: the first one opens the workbook;
\* the sheets are parsed in order up to the first record to yield; past the last
\* sheet the with block closes the workbook, the for loop ends, the output file
\* is closed and the call returns
iter_sheet_records ==
    /\ pc = "iter"
    /\ LET src == IF gen.state = "created" THEN SourceOf(entry) ELSE XlsxFile(gen.xls)
       IN IF src.kind # "xlsx"
          THEN /\ Finish("raised", "open_workbook", src, fs, TRUE)
               /\ UNCHANGED handles
          ELSE LET sheets == src.sheets
                   j == NextKept(self, sheets, gen.idx)
               IN IF j = 0
                  THEN /\ handles' = handles \ {This}
                       /\ Finish("ok", "return", src, fs, TRUE)
                  ELSE /\ handles' = handles \cup {This}
                       /\ gen' = [state |-> "suspended", idx |-> j, xls |-> sheets]
                       /\ record' = sheet_to_record(self, sheets[j].df, sheets[j].name)
                       /\ pc' = "write"
                       /\ UNCHANGED <<entry, out, emitted, log>>
    /\ UNCHANGED <<args, fs>>

\* lines 114-115 and 127-128, the body of the for loop: json.dumps, then the two
\* writes.  When json.dumps raises, the exception leaves the call through the
\* with block of the output file; the generator is left suspended inside its own
\* with block and nothing closes it: its workbook is released when the
\* interpreter finalizes the generator, at once under reference counting, later
\* (or never) otherwise
WriteRecord ==
    /\ pc = "write"
    /\ LET r == Dumps(record, EncoderOf(entry))
       IN IF r.ok
          THEN /\ fs' = WriteChunks(fs, out, LineChunks(r.val))
               /\ emitted' = emitted + 1
               /\ pc' = "iter"
               /\ UNCHANGED <<entry, out, gen, record, handles, log>>
          ELSE /\ \E finalized \in BOOLEAN :
                    handles' = IF finalized THEN handles \ {This} ELSE handles
               /\ Finish("raised", "encode", XlsxFile(gen.xls), fs, TRUE)
               /\ UNCHANGED fs
    /\ UNCHANGED args

\* the interpreter finalizes the abandoned generator of a finished call
CollectGenerator ==
    /\ \E h \in handles :
          /\ h <= Len(log)
          /\ handles' = handles \ {h}
    /\ UNCHANGED <<args, fs, pc, entry, out, gen, record, emitted, log>>

Next ==
    \/ \E e \in {"convert", "convert_bytes"} : Call(e)
    \/ Normalize
    \/ MkdirParents
    \/ OpenOutput
    \/ iter_sheet_records
    \/ WriteRecord
    \/ CollectGenerator
(* --------------------------- initial states ---------------------------- *)
Configs == [include_sheet_name : BOOLEAN, skip_empty_sheets : BOOLEAN]
DefaultConfig == [include_sheet_name |-> TRUE, skip_empty_sheets |-> TRUE]

\* a one-column frame of n rows whose column holds values of one kind
Frame(kind, n) == [columns |-> <<"a">>, rows |-> [i \in 1..n |-> [a |-> kind]]]
NoColumns == [columns |-> <<>>, rows |-> <<>>]
Frames == {NoColumns, Frame("int", 0)} \cup {Frame(k, n) : k \in CellKinds, n \in 1..MaxRows}

\* workbooks of 1..MaxSheets sheets, named by their position
Named(frames) == [i \in 1..Len(frames) |-> [name |-> ToString(i), df |-> frames[i]]]
Workbooks == {Named(w) : w \in SeqsUpTo(Frames, MaxSheets) \ {<<>>}}

\* the workbook of tests/test_convert_xlsx_to_jsonl.py, _build_sample_xlsx
SampleWorkbook ==
    << [name |-> "Data", df |-> [columns |-> <<"a", "b">>,
                                 rows |-> << [a |-> "int", b |-> "str"], [a |-> "int", b |-> "str"] >>]],
       [name |-> "Empty", df |-> NoColumns],
       [name |-> "Meta", df |-> [columns |-> <<"col">>, rows |-> << [col |-> "int"] >>]] >>

\* the same workbook with a date column in its last sheet
DatedWorkbook ==
    [SampleWorkbook EXCEPT ![3].df = [columns |-> <<"col">>, rows |-> << [col |-> "datetime"] >>]]

BookXlsx == <<"book", Dot, "xlsx">>
OldText == TextFile(<<[chunk |-> "old"], Newline>>)
Seg(t) == <<t>>

\* a tree holding the input file, some directories and some old text files
Tree(input, source, dirs, olds) ==
    [dirs |-> {<<>>} \cup dirs,
     files |-> [q \in {Path(input)} \cup olds |-> IF q = Path(input) THEN source ELSE OldText]]

\* texts of up to MaxLen tokens: relative, and every segment either "." or a name
\* that neither ends with '.' nor starts with '..' (no ".." segment, and no name
\* whose suffix differs between versions of pathlib)
Alphabet == {"d", Dot, Sep}
PlainSegment(seg) ==
    \/ seg \in {<<>>, <<Dot>>}
    \/ /\ Last(seg) # Dot
       /\ Len(seg) >= 2 => ~(seg[1] = Dot /\ seg[2] = Dot)
Texts ==
    {t \in SeqsUpTo(Alphabet, MaxLen) :
        /\ t = <<>> \/ t[1] # Sep
        /\ \A i \in 1..Len(SplitFrom(t, 1, <<>>, <<>>)) : PlainSegment(SplitFrom(t, 1, <<>>, <<>>)[i])}

\* str.encode('utf-8')
EncodeToken(c) == IF c = "d" THEN 100 ELSE IF c = Dot THEN 46 ELSE 47
Encode(text) == [i \in 1..Len(text) |-> EncodeToken(text[i])]

Init ==
    /\ self \in Configs
    /\ input_path = BookXlsx
    /\ file_bytes \in {XlsxFile(w) : w \in Workbooks} \cup {TextFile(<<>>)}
    /\ output_path = StrArg(<<"d">>)
    /\ fs = Tree(input_path, file_bytes, {<<Seg("d")>>},
                 {<<Seg("d"), OutputJsonl>>, <<Seg("d"), <<"book", Dot, "jsonl">> >>})
    /\ pc = "idle"
    /\ entry = None
    /\ out = <<>>
    /\ gen = NoGen
    /\ record = NoRecord
    /\ emitted = 0
    /\ handles = {}
    /\ log = <<>>

Spec == Init /\ [][Next]_vars

InitPaths ==
    /\ self = DefaultConfig
    /\ input_path = BookXlsx
    /\ file_bytes \in {XlsxFile(SampleWorkbook), XlsxFile(DatedWorkbook)}
    /\ output_path \in {NoArg, StrArg(BookXlsx)} \cup {StrArg(t) : t \in Texts}
                       \cup {BytesArg(Encode(t)) : t \in Texts}
                       \cup {BytesArg(Append(Encode(t), 255)) : t \in {u \in Texts : Len(u) <= 1}}
                       \cup {PathArg(Path(t)) : t \in Texts}
    /\ fs \in {Tree(input_path, file_bytes, {}, {}),
               Tree(input_path, file_bytes, {<<Seg("d")>>}, {}),
               Tree(input_path, file_bytes, {<< <<"d", Dot, "d">> >>}, {}),
               Tree(input_path, file_bytes, {}, {<<Seg("d")>>}),
               Tree(input_path, file_bytes, {}, {<< <<"d", Dot, "d">> >>})}
    /\ pc = "idle"
    /\ entry = None
    /\ out = <<>>
    /\ gen = NoGen
    /\ record = NoRecord
    /\ emitted = 0
    /\ handles = {}
    /\ log = <<>>

SpecPaths == InitPaths /\ [][Next]_vars
(* ============================== the claims ============================= *)
\* the finished calls
Calls == DOMAIN log
IsXlsx(c) == c.kind = "xlsx"
IsText(c) == c.kind = "text"

\* a worksheet's data rows, and whether the claims count it as skipped
DataRows(sheet) == Len(sheet.df.rows)
Skipped(sheet) == DataRows(sheet) = 0 /\ self.skip_empty_sheets
NotSkippedSheets(sheets) == LET keep(sh) == ~Skipped(sh) IN SelectSeq(sheets, keep)

\* chunks 2k-1 and 2k form the k-th newline-terminated line, a JSON object for sheet sh
IsLineOf(chunks, k, sh) ==
    /\ chunks[2 * k - 1].chunk = "json"
    /\ chunks[2 * k].chunk = "\n"
    /\ LET obj == chunks[2 * k - 1].value
       IN /\ "rows" \in DOMAIN obj
          /\ Len(obj.rows) = DataRows(sh)
          /\ \A r \in 1..Len(obj.rows) : DOMAIN obj.rows[r] = {sh.df.columns[c] : c \in 1..Len(sh.df.columns)}
          /\ ("sheet_name" \in DOMAIN obj) = self.include_sheet_name
          /\ self.include_sheet_name => obj.sheet_name = sh.name

\* C1: after a successful convert or convert_bytes the output file holds exactly
\* one newline-terminated line per worksheet that was not skipped, in the order of
\* the worksheets in the workbook.
C1_OneLinePerKeptSheetInOrder ==
    \A i \in Calls :
        log[i].status = "ok" =>
            LET kept == NotSkippedSheets(log[i].src.sheets)
                chunks == log[i].content.chunks
            IN /\ IsText(log[i].content)
               /\ Len(chunks) = 2 * Len(kept)
               /\ \A k \in 1..Len(kept) : IsLineOf(chunks, k, kept[k])

\* a successful call on a two-sheet workbook whose first sheet was skipped and whose
\* second was written
C1_Witness ==
    \E i \in Calls :
        /\ log[i].status = "ok"
        /\ Len(log[i].src.sheets) = 2
        /\ Skipped(log[i].src.sheets[1])
        /\ ~Skipped(log[i].src.sheets[2])
        /\ Len(log[i].content.chunks) = 2

\* the JSON lines of a text file whose rows sequence is empty
EmptyRowLines(chunks) ==
    {k \in 1..Len(chunks) : chunks[k].chunk = "json" /\ chunks[k].value.rows = <<>>}
ZeroRowSheets(sheets) == {j \in 1..Len(sheets) : DataRows(sheets[j]) = 0}

\* C2: _sheet_to_record returns None exactly when the worksheet has zero data rows
\* and skip_empty_sheets is true; a zero-row worksheet gives 0 lines when
\* skip_empty_sheets is true and 1 line with an empty rows sequence when it is
\* false; a worksheet with data rows is never skipped.
C2_SkipExactlyEmptyWhenAsked ==
    /\ IsXlsx(file_bytes) =>
          \A j \in 1..Len(file_bytes.sheets) :
              LET sh == file_bytes.sheets[j]
                  rec == sheet_to_record(self, sh.df, sh.name)
              IN /\ (rec = NoRecord) = (DataRows(sh) = 0 /\ self.skip_empty_sheets)
                 /\ rec # NoRecord => Len(rec.rows) = DataRows(sh)
    /\ \A i \in Calls :
          log[i].status = "ok" =>
              Cardinality(EmptyRowLines(log[i].content.chunks)) =
                  IF self.skip_empty_sheets THEN 0
                  ELSE Cardinality(ZeroRowSheets(log[i].src.sheets))

\* a successful call, skip_empty_sheets false, that wrote the line of a zero-row sheet
C2_Witness ==
    \E i \in Calls :
        /\ log[i].status = "ok"
        /\ ~self.skip_empty_sheets
        /\ ZeroRowSheets(log[i].src.sheets) # {}
        /\ EmptyRowLines(log[i].content.chunks) # {}
(* --------------------------- path resolution --------------------------- *)
\* the default filename each entry point gives the resolver (lines 108 and 123)
BookJsonl == <<"book", Dot, "jsonl">>
DefaultOf(e) == IF e = "convert" THEN BookJsonl ELSE OutputJsonl

\* the output target the running call resolves: convert replaces None by the
\* input path with the .jsonl suffix
TargetOf(e) ==
    IF e = "convert" /\ output_path.kind = "None" THEN PathArg(<<BookJsonl>>) ELSE output_path

\* the path text of a target
TargetText(target) ==
    IF target.kind = "bytes" THEN Decode(target.data)
    ELSE IF target.kind = "str" THEN Ok(target.text)
    ELSE IF target.kind = "Path" THEN Ok(Str(target.path))
    ELSE Raise("TypeError")

\* a segment has a file extension: its last '.' neither leads nor ends it
HasExtension(seg) ==
    \E i \in 2..(Len(seg) - 1) : seg[i] = Dot /\ \A j \in (i + 1)..Len(seg) : seg[j] # Dot
HasDot(seg) == \E i \in 1..Len(seg) : seg[i] = Dot

\* the rule of the claim that decides a target, the first of (2)-(4) that matches
\* its text once rule (1) has decoded it; 0 when there is no text to decide on
RuleOf(tree, target) ==
    LET text == TargetText(target)
    IN IF ~text.ok THEN 0
       ELSE LET dir == Path(text.val)
                final == IF dir = <<>> THEN <<>> ELSE dir[Len(dir)]
            IN IF dir \in tree.dirs THEN 2
               ELSE IF ~HasExtension(final) /\ (EndsWithSep(text.val) \/ ~HasDot(final)) THEN 3
               ELSE 4

ResolvedByRules(tree, target, default_filename) ==
    LET rule == RuleOf(tree, target)
    IN IF rule = 0 THEN TargetText(target)
       ELSE IF rule \in {2, 3} THEN Ok(Append(Path(TargetText(target).val), default_filename))
       ELSE Ok(Path(TargetText(target).val))

\* C3: _normalize_output_path returns the result of the first matching rule:
\* (1) bytes are decoded as UTF-8; (2) an existing directory is joined with
\* default_filename; (3) a path with no file extension that ends with a separator
\* or whose final segment has no '.' is joined with default_filename; (4) any
\* other path is returned as it is.
C3_ResolutionFollowsRulesInOrder ==
    /\ output_path.kind # "None" =>
          \A d \in {BookJsonl, OutputJsonl} :
              normalize_output_path(fs, output_path, d) = ResolvedByRules(fs, output_path, d)
    /\ pc = "mkdir" => Ok(out) = ResolvedByRules(fs, TargetOf(entry), DefaultOf(entry))
    /\ \A i \in Calls : (log[i].stage = "normalize") = ~TargetText(TargetOf(log[i].entry)).ok

\* convert_bytes has just resolved a bytes target that ends with a separator and
\* names no directory to <dir>/output.jsonl (rule 3 after rule 1)
C3_Witness ==
    /\ pc = "mkdir"
    /\ entry = "convert_bytes"
    /\ output_path.kind = "bytes"
    /\ RuleOf(fs, output_path) = 3
    /\ EndsWithSep(Decode(output_path.data).val)
    /\ out = <<Seg("d"), OutputJsonl>>

\* C4: a str or bytes target whose text ends with a path separator and names no
\* existing directory resolves to <that directory>/<default_filename>, whatever
\* the directory's name.
C4_TrailingSeparatorMeansDirectory ==
    (/\ pc = "mkdir"
     /\ output_path.kind \in {"str", "bytes"}
     /\ EndsWithSep(TargetText(output_path).val)
     /\ Path(TargetText(output_path).val) \notin fs.dirs)
    => out = Append(Path(TargetText(output_path).val), DefaultOf(entry))

\* C5: a second call with the same arguments after a successful first one
\* succeeds, resolves to the same output path and leaves the file with the
\* content it had after the first call.
C5_SecondCallSameOutput ==
    \A i \in Calls :
        (i + 1 \in Calls /\ log[i].entry = log[i + 1].entry /\ log[i].status = "ok") =>
            /\ log[i + 1].status = "ok"
            /\ log[i + 1].out = log[i].out
            /\ log[i + 1].content = log[i].content

\* two successful calls in a row on the target "d/d": the first creates the
\* directories, the second finds them and rewrites the file
C5_Witness ==
    /\ output_path = StrArg(<<"d", Sep, "d">>)
    /\ \E i \in Calls :
          /\ i + 1 \in Calls
          /\ log[i].entry = log[i + 1].entry
          /\ log[i].status = "ok"
          /\ log[i + 1].status = "ok"
          /\ Len(log[i + 1].content.chunks) > 0
(* ------------------------------ the encoder ---------------------------- *)
\* the calls that got as far as reading the workbook
ReadSource(i) == log[i].stage \in {"open_workbook", "encode", "return"}

\* the cell values of a worksheet
CellsOf(sheet) ==
    {sheet.df.rows[r][c] : r \in 1..DataRows(sheet), c \in {sheet.df.columns[k] : k \in 1..Len(sheet.df.columns)}}
\* the values of the k-th line of a file
ValuesOfLine(chunks, k) ==
    LET rows == chunks[2 * k - 1].value.rows
    IN UNION {{rows[r][c] : c \in DOMAIN rows[r]} : r \in 1..Len(rows)}

\* C6: a cell value that is neither natively serializable, nor a date/time, nor
\* a numpy integer makes encoding fail with an error that reaches the caller;
\* no call that met such a value ends successfully.
C6_UnserializableValueRaises ==
    \A i \in Calls :
        log[i].status = "ok" =>
            \A j \in 1..Len(log[i].src.sheets) :
                ~Skipped(log[i].src.sheets[j]) => "other" \notin CellsOf(log[i].src.sheets[j])

\* C7: a date/time cell is written as its ISO-8601 string: a call that ends
\* successfully wrote every date/time value as that string, and no call fails
\* on a record that holds date/time values.
C7_DateTimeWrittenAsIso ==
    \A i \in Calls :
        /\ log[i].status = "ok" =>
              LET kept == NotSkippedSheets(log[i].src.sheets)
              IN \A k \in 1..Len(kept) :
                    "datetime" \in CellsOf(kept[k]) =>
                        ValuesOfLine(log[i].content.chunks, k) = {IsoFormat("datetime")}
        /\ log[i].stage = "encode" => "datetime" \notin CellsOf(log[i].src.sheets[log[i].at])

\* C8: convert and convert_bytes have the same outcome on the same workbook:
\* both succeed and write the same content, or both fail.
C8_SameOutcomeFromPathAndBytes ==
    \A i, j \in Calls :
        (/\ log[i].entry = "convert"
         /\ log[j].entry = "convert_bytes"
         /\ ReadSource(i)
         /\ ReadSource(j)
         /\ log[i].src = log[j].src)
        => /\ log[i].status = log[j].status
           /\ log[i].status = "ok" => log[i].content = log[j].content

C10_TruncatedFirstAndPartialOutputKept ==
    /\ pc \in {"iter", "write"} => IsFile(fs, out) /\ IsDir(fs, Parent(out))
    /\ (pc = "iter" /\ gen.state = "created") =>
          /\ fs.files[out] = TextFile(<<>>)
          /\ This \notin handles
    /\ \A i \in Calls :
          /\ log[i].stage = "open_workbook" =>
                /\ log[i].status = "raised"
                /\ log[i].content = TextFile(<<>>)
          /\ log[i].stage = "encode" =>
                LET sheets == log[i].src.sheets
                    kept == NotSkippedSheets(sheets)
                    chunks == log[i].content.chunks
                    before == {j \in 1..(log[i].at - 1) : ~Skipped(sheets[j])}
                IN /\ log[i].status = "raised"
                   /\ IsText(log[i].content)
                   /\ ~Skipped(sheets[log[i].at])
                   /\ log[i].emitted = Cardinality(before)
                   /\ Len(chunks) = 2 * Cardinality(before)
                   /\ \A k \in 1..Cardinality(before) : IsLineOf(chunks, k, kept[k])

\* a call that failed encoding its second record: the file, which held old
\* text, is left with the first record's line
C10_Witness ==
    \E i \in Calls :
        /\ log[i].stage = "encode"
        /\ log[i].emitted = 1
        /\ Len(log[i].content.chunks) = 2
        /\ log[i].content # OldText
====
